---- MODULE Spec2Model ----
(***************************************************************************)
(* pyFPA: arbitrary-precision binary floating point.                       *)
(*                                                                         *)
(* A CustomFloat is the 4-tuple <<sign, exponent, mantissa, precision>>    *)
(* of core/float.py; the kernels of algorithms/ are pure functions over    *)
(* such tuples and are modelled as operators computed the way the code     *)
(* computes them (shifts, masks, integer division, bit_length).  The       *)
(* state machine draws two operands and a result precision and applies     *)
(* one kernel operation to them; Elementary.sin_taylor is the loop over    *)
(* the kernels, one iteration per step.                                    *)
(***************************************************************************)
EXTENDS Integers, Sequences, FiniteSets, TLC

VARIABLES a, b, prec, op, tmp, res, n_term

vars == <<a, b, prec, op, tmp, res, n_term>>

----------------------------------------------------------------------------
(* Bounds of the model.                                                    *)

\* Largest precision_bits of an operand or of a result.
MaxPrecision == 11

\* How many biased exponents are taken next to each boundary of the
\* exponent range (the floor 1, the bias, the ceiling 2^exponent_bits - 2).
ExpSpan == 1

\* Largest precision_bits of the round trip divide(multiply(a, b, p), b, p).
MaxInversePrecision == 12

\* Largest precision_bits of an operand of a mixed-precision addition.
MaxMixedPrecision == 13

\* Largest precision_bits of the argument of sin_taylor.
MaxSinPrecision == 12

\* Largest term index n for which an iteration of sin_taylor is taken.
MaxTerms == 100

----------------------------------------------------------------------------
(* Integer primitives of Python used by the kernels.                       *)

RECURSIVE Pow2(_)
\* 2 ** n, 1 << n
Pow2(n) == IF n <= 0 THEN 1 ELSE 2 * Pow2(n - 1)

\* x << k
shl(x, k) == x * Pow2(k)

\* x >> k (floor, as Python's >> on int)
shr(x, k) == x \div Pow2(k)

\* x & ((1 << m) - 1), x >= 0
low_bits(x, m) == x % Pow2(m)

RECURSIVE bit_length(_)
\* int.bit_length() of x >= 0
bit_length(x) == IF x <= 0 THEN 0 ELSE 1 + bit_length(x \div 2)

RECURSIVE ilog2(_)
\* int(math.log2(p)) for p >= 1
ilog2(p) == IF p <= 1 THEN 0 ELSE 1 + ilog2(p \div 2)

\* max(x, y)
Max(x, y) == IF x >= y THEN x ELSE y

\* s ^ t on sign bits
xor_flip(s, t) == s
xor(s, t) == (s + t) % 2

----------------------------------------------------------------------------
(* Bit layout, a pure function of precision_bits.                          *)

\* The floor of the exponent width: max(8, ...).
MinExponentBits == 8

exponent_bits(p) == Max(MinExponentBits, ilog2(p) + 2)

mantissa_bits(p) == p - exponent_bits(p) - 1

exponent_bias(p) == Pow2(exponent_bits(p) - 1) - 1

\* (2 ** exponent_bits) - 1, the exponent of inf and nan
max_exp(p) == Pow2(exponent_bits(p)) - 1

\* CustomFloat.get_bit_allocation: (sign_bits, exponent_bits, mantissa_bits)
get_bit_allocation(v) == <<1, exponent_bits(v[4]), mantissa_bits(v[4])>>

----------------------------------------------------------------------------
(* Outcome of a call: a returned tuple, or a raised exception.             *)

Ok(v) == [exc |-> "none", val |-> v]

Raise(e) == [exc |-> e, val |-> <<>>]

\* CustomFloat._from_value(0.0, result_prec), as addition.py calls it:
\* _from_value is an instance method (self, value, precision) reached
\* through the class, so the two arguments bind to self and value and the
\* call raises TypeError (missing positional argument 'precision').
from_value_unbound(value, precision) == Raise("TypeError")

----------------------------------------------------------------------------
(* Multiplication.multiply_basic                                           *)

multiply_basic(x, y, p) ==
    LET sign_a == x[1]
        exp_a == x[2]
        mant_a == x[3]
        sign_b == y[1]
        exp_b == y[2]
        mant_b == y[3]
    IN  IF (exp_a = 0 /\ mant_a = 0) \/ (exp_b = 0 /\ mant_b = 0)
        THEN <<0, 0, 0, p>>
        ELSE
        LET result_sign == xor(sign_a, sign_b)
            exp_bits_a == get_bit_allocation(x)[2]
            mant_bits_a == get_bit_allocation(x)[3]
            exp_bits_b == get_bit_allocation(y)[2]
            mant_bits_b == get_bit_allocation(y)[3]
            exp_bits_result == Max(MinExponentBits, ilog2(p) + 2)
            mant_bits_result == p - exp_bits_result - 1
            bias_a == Pow2(exp_bits_a - 1) - 1
            bias_b == Pow2(exp_bits_b - 1) - 1
            bias_result == Pow2(exp_bits_result - 1) - 1
            unbiased_exp_a == exp_a - bias_a
            unbiased_exp_b == exp_b - bias_b
            full_mant_a == shl(1, mant_bits_a) + mant_a
            full_mant_b == shl(1, mant_bits_b) + mant_b
            product == full_mant_a * full_mant_b
            total_bits == mant_bits_a + mant_bits_b
            carry == product >= shl(1, total_bits + 1)
            result_exp_unbiased ==
                unbiased_exp_a + unbiased_exp_b + (IF carry THEN 1 ELSE 0)
            shift_amount ==
                IF carry THEN total_bits + 1 - mant_bits_result
                         ELSE total_bits - mant_bits_result
            normalized_mantissa ==
                IF shift_amount >= 0 THEN shr(product, shift_amount)
                                     ELSE shl(product, -shift_amount)
            result_mantissa == normalized_mantissa - shl(1, mant_bits_result)
            result_exp_biased == result_exp_unbiased + bias_result
            maxexp == Pow2(exp_bits_result) - 1
        IN  IF result_exp_biased >= maxexp
            THEN <<result_sign, maxexp, 0, p>>
            ELSE IF result_exp_biased <= 0
            THEN <<result_sign, 0, 0, p>>
            ELSE <<result_sign, result_exp_biased, result_mantissa, p>>

----------------------------------------------------------------------------
(* Multiplication.multiply_karat                                           *)

\* The three-product reconstruction with the cross term computed without
\* subtracting z0.
karat_product_no_z0(full_mant_a, full_mant_b, m) ==
    LET x1 == shr(full_mant_a, m)
        x0 == low_bits(full_mant_a, m)
        y1 == shr(full_mant_b, m)
        y0 == low_bits(full_mant_b, m)
        z2 == x1 * y1
        z0 == x0 * y0
        z1 == (x1 + x0) * (y1 + y0) - z2
    IN  shl(z2, 2 * m) + shl(z1, m) + z0

\* Split both full mantissas at bit m and rebuild the product from
\* z2, z0 and the cross term z1.
karat_product(full_mant_a, full_mant_b, m) ==
    LET x1 == shr(full_mant_a, m)
        x0 == low_bits(full_mant_a, m)
        y1 == shr(full_mant_b, m)
        y0 == low_bits(full_mant_b, m)
        z2 == x1 * y1
        z0 == x0 * y0
        z1 == (x1 + x0) * (y1 + y0) - z2 - z0
    IN  shl(z2, 2 * m) + shl(z1, m) + z0

multiply_karat(x, y, p) ==
    LET sign_a == x[1]
        exp_a == x[2]
        mant_a == x[3]
        sign_b == y[1]
        exp_b == y[2]
        mant_b == y[3]
    IN  IF (exp_a = 0 /\ mant_a = 0) \/ (exp_b = 0 /\ mant_b = 0)
        THEN <<0, 0, 0, p>>
        ELSE
        LET sign_result == xor(sign_a, sign_b)
            exp_bits_a == get_bit_allocation(x)[2]
            mant_bits_a == get_bit_allocation(x)[3]
            exp_bits_b == get_bit_allocation(y)[2]
            mant_bits_b == get_bit_allocation(y)[3]
            full_mant_a == shl(1, mant_bits_a) + mant_a
            full_mant_b == shl(1, mant_bits_b) + mant_b
            n == Max(mant_bits_a, mant_bits_b)
            m == n \div 2
            product == karat_product(full_mant_a, full_mant_b, m)
            exp_bits_result == Max(MinExponentBits, ilog2(p) + 2)
            mant_bits_result == p - exp_bits_result - 1
            bias_a == Pow2(exp_bits_a - 1) - 1
            bias_b == Pow2(exp_bits_b - 1) - 1
            bias_result == Pow2(exp_bits_result - 1) - 1
            unbiased_exp_a == exp_a - bias_a
            unbiased_exp_b == exp_b - bias_b
            total_bits == mant_bits_a + mant_bits_b
            carry == product >= shl(1, total_bits + 1)
            result_exp_unbiased ==
                unbiased_exp_a + unbiased_exp_b + (IF carry THEN 1 ELSE 0)
            shift_amount ==
                IF carry THEN total_bits + 1 - mant_bits_result
                         ELSE total_bits - mant_bits_result
            normalized_mantissa ==
                IF shift_amount >= 0 THEN shr(product, shift_amount)
                                     ELSE shl(product, -shift_amount)
            result_mantissa == normalized_mantissa - shl(1, mant_bits_result)
            result_exp_biased == result_exp_unbiased + bias_result
            maxexp == Pow2(exp_bits_result) - 1
        IN  IF result_exp_biased >= maxexp
            THEN <<sign_result, maxexp, 0, p>>
            ELSE IF result_exp_biased <= 0
            THEN <<sign_result, 0, 0, p>>
            ELSE <<sign_result, result_exp_biased, result_mantissa, p>>

----------------------------------------------------------------------------
(* Division.divide_basic                                                   *)

\* The divisor-is-zero return with the sign of the dividend alone.
divide_by_zero_sign_a(sign_a, sign_b, p) ==
    <<sign_a, Pow2(Max(MinExponentBits, ilog2(p) + 2)) - 1, 0, p>>

\* b is zero: signed infinity in the layout of p, also for a zero.
divide_by_zero(sign_a, sign_b, p) ==
    LET exp_bits_result == Max(MinExponentBits, ilog2(p) + 2)
        maxexp == Pow2(exp_bits_result) - 1
        result_sign == xor(sign_a, sign_b)
    IN  <<result_sign, maxexp, 0, p>>

\* The normalization with the left shift of a narrow quotient left out of
\* the exponent.
divide_normalize_no_exp(quotient, mant_bits_result, result_exp_unbiased) ==
    LET quotient_msb == bit_length(quotient)
        expected_msb == mant_bits_result
    IN  IF quotient_msb > expected_msb
        THEN <<shr(quotient, quotient_msb - expected_msb), result_exp_unbiased>>
        ELSE IF quotient_msb < expected_msb
        THEN <<shl(quotient, expected_msb - quotient_msb), result_exp_unbiased>>
        ELSE <<quotient, result_exp_unbiased>>

\* Bring the quotient to bit_length mant_bits_result and move the exponent
\* by the shift: <<normalized_quotient, result_exp_unbiased>>.
divide_normalize(quotient, mant_bits_result, result_exp_unbiased) ==
    LET quotient_msb == bit_length(quotient)
        expected_msb == mant_bits_result
    IN  IF quotient_msb > expected_msb
        THEN <<shr(quotient, quotient_msb - expected_msb),
               result_exp_unbiased + (quotient_msb - expected_msb)>>
        ELSE IF quotient_msb < expected_msb
        THEN <<shl(quotient, expected_msb - quotient_msb),
               result_exp_unbiased - (expected_msb - quotient_msb)>>
        ELSE <<quotient, result_exp_unbiased>>

divide_basic(x, y, p) ==
    LET sign_a == x[1]
        exp_a == x[2]
        mant_a == x[3]
        sign_b == y[1]
        exp_b == y[2]
        mant_b == y[3]
    IN  IF exp_b = 0 /\ mant_b = 0
        THEN divide_by_zero(sign_a, sign_b, p)
        ELSE IF exp_a = 0 /\ mant_a = 0
        THEN <<0, 0, 0, p>>
        ELSE
        LET result_sign == xor(sign_a, sign_b)
            exp_bits_a == get_bit_allocation(x)[2]
            mant_bits_a == get_bit_allocation(x)[3]
            exp_bits_b == get_bit_allocation(y)[2]
            mant_bits_b == get_bit_allocation(y)[3]
            exp_bits_result == Max(MinExponentBits, ilog2(p) + 2)
            mant_bits_result == p - exp_bits_result - 1
            bias_a == Pow2(exp_bits_a - 1) - 1
            bias_b == Pow2(exp_bits_b - 1) - 1
            bias_result == Pow2(exp_bits_result - 1) - 1
            unbiased_exp_a == exp_a - bias_a
            unbiased_exp_b == exp_b - bias_b
            full_mant_a == shl(1, mant_bits_a) + mant_a
            full_mant_b == shl(1, mant_bits_b) + mant_b
            scaled_dividend == shl(full_mant_a, mant_bits_result)
            quotient == scaled_dividend \div full_mant_b
            norm == divide_normalize(quotient, mant_bits_result,
                                     unbiased_exp_a - unbiased_exp_b)
            normalized_quotient == norm[1]
            result_exp_unbiased == norm[2]
            result_mantissa == normalized_quotient - shl(1, mant_bits_result)
            result_exp_biased == result_exp_unbiased + bias_result
            maxexp == Pow2(exp_bits_result) - 1
        IN  IF result_exp_biased >= maxexp
            THEN <<result_sign, maxexp, 0, p>>
            ELSE IF result_exp_biased <= 0
            THEN <<result_sign, 0, 0, p>>
            ELSE <<result_sign, result_exp_biased, result_mantissa, p>>

----------------------------------------------------------------------------
(* Addition.add_basic                                                      *)

\* Alignment of the two full mantissas on the larger exponent.  ret names
\* the operand returned unchanged by the exponent-gap shortcut, or "none".
add_align(full_mant_a, full_mant_b, unbiased_exp_a, unbiased_exp_b, mbits) ==
    LET exp_diff == unbiased_exp_a - unbiased_exp_b
    IN  IF exp_diff > 0
        THEN IF exp_diff >= mbits + 5
             THEN [ret |-> "a", ma |-> 0, mb |-> 0, e |-> 0]
             ELSE [ret |-> "none", ma |-> full_mant_a,
                   mb |-> shr(full_mant_b, exp_diff), e |-> unbiased_exp_a]
        ELSE IF exp_diff < 0
        THEN IF -exp_diff >= mbits + 5
             THEN [ret |-> "b", ma |-> 0, mb |-> 0, e |-> 0]
             ELSE [ret |-> "none", ma |-> shr(full_mant_a, -exp_diff),
                   mb |-> full_mant_b, e |-> unbiased_exp_b]
        ELSE [ret |-> "none", ma |-> full_mant_a, mb |-> full_mant_b,
              e |-> unbiased_exp_a]

\* Sum or difference of the aligned magnitudes and the sign of the result.
add_magnitudes(sign_a, sign_b, aligned_mant_a, aligned_mant_b) ==
    IF sign_a = sign_b
    THEN [mant |-> aligned_mant_a + aligned_mant_b, sign |-> sign_a]
    ELSE IF aligned_mant_a >= aligned_mant_b
    THEN [mant |-> aligned_mant_a - aligned_mant_b, sign |-> sign_a]
    ELSE [mant |-> aligned_mant_b - aligned_mant_a, sign |-> sign_b]

RECURSIVE add_shift_left(_, _, _, _)
\* while result_mant < (1 << mantissa_bits) and
\*       result_unbiased_exp > -exponent_bias: shift left, decrement
add_shift_left(result_mant, result_unbiased_exp, mantissa_bits_r, bias) ==
    IF result_mant < shl(1, mantissa_bits_r) /\ result_unbiased_exp > -bias
    THEN add_shift_left(shl(result_mant, 1), result_unbiased_exp - 1,
                        mantissa_bits_r, bias)
    ELSE <<result_mant, result_unbiased_exp>>

\* One carry shift right, then the left shifts:
\* <<result_mant, result_unbiased_exp>>.
add_normalize(result_mant, result_unbiased_exp, mantissa_bits_r, bias) ==
    IF result_mant >= shl(1, mantissa_bits_r + 1)
    THEN add_shift_left(shr(result_mant, 1), result_unbiased_exp + 1,
                        mantissa_bits_r, bias)
    ELSE add_shift_left(result_mant, result_unbiased_exp,
                        mantissa_bits_r, bias)

\* add_basic with the branch it leaves through: out is the outcome,
\* branch one of "zero_a", "zero_b", "gap_a", "gap_b", "cancel",
\* "underflow", "overflow", "finite".
add_steps(x, y) ==
    LET sign_a == x[1]
        exp_a == x[2]
        mant_a == x[3]
        prec_a == x[4]
        sign_b == y[1]
        exp_b == y[2]
        mant_b == y[3]
        prec_b == y[4]
        result_prec == Max(prec_a, prec_b)
        exponentbits == Max(MinExponentBits, ilog2(result_prec) + 2)
        mantissabits == result_prec - exponentbits - 1
        bias == Pow2(exponentbits - 1) - 1
    IN  IF exp_a = 0 /\ mant_a = 0
        THEN [branch |-> "zero_a", out |-> Ok(y)]
        ELSE IF exp_b = 0 /\ mant_b = 0
        THEN [branch |-> "zero_b", out |-> Ok(x)]
        ELSE
        LET unbiased_exp_a == exp_a - bias
            unbiased_exp_b == exp_b - bias
            full_mant_a == shl(1, mantissabits) + mant_a
            full_mant_b == shl(1, mantissabits) + mant_b
            al == add_align(full_mant_a, full_mant_b, unbiased_exp_a,
                            unbiased_exp_b, mantissabits)
        IN  IF al.ret = "a" THEN [branch |-> "gap_a", out |-> Ok(x)]
            ELSE IF al.ret = "b" THEN [branch |-> "gap_b", out |-> Ok(y)]
            ELSE
            LET s == add_magnitudes(sign_a, sign_b, al.ma, al.mb)
            IN  IF s.mant = 0
                THEN [branch |-> "cancel",
                      out |-> from_value_unbound(0, result_prec)]
                ELSE
                LET norm == add_normalize(s.mant, al.e, mantissabits, bias)
                    result_mant == norm[1] - shl(1, mantissabits)
                    result_exp == norm[2] + bias
                IN  IF result_exp <= 0
                    THEN [branch |-> "underflow",
                          out |-> from_value_unbound(0, result_prec)]
                    ELSE IF result_exp >= shl(1, exponentbits) - 1
                    THEN [branch |-> "overflow",
                          out |-> Ok(<<s.sign, shl(1, exponentbits) - 1, 0,
                                       result_prec>>)]
                    ELSE [branch |-> "finite",
                          out |-> Ok(<<s.sign, result_exp, result_mant,
                                       result_prec>>)]

add_basic(x, y) == add_steps(x, y).out

----------------------------------------------------------------------------
(* Operands.                                                               *)

\* precision_bits that leave at least one mantissa bit next to the sign
\* bit and the 8 exponent bits.
Precisions == (MinExponentBits + 2) .. MaxPrecision

\* Biased exponents of finite values: next to the floor, around the bias,
\* and up to the ceiling 2^exponent_bits - 2.
FiniteExponents(p) ==
    (1 .. (1 + ExpSpan))
    \cup ((exponent_bias(p) - ExpSpan) .. (exponent_bias(p) + ExpSpan))
    \cup ((max_exp(p) - 1 - ExpSpan) .. (max_exp(p) - 1))

Mantissas(p) == 0 .. (Pow2(mantissa_bits(p)) - 1)

\* Zero of either sign: CustomFloat(0.0, p) gives +0; a product or quotient
\* that underflows gives (result_sign, 0, 0, p).
Zeros(p) == {<<s, 0, 0, p>> : s \in {0, 1}}

Finites(p) ==
    {<<s, e, m, p>> : s \in {0, 1}, e \in FiniteExponents(p), m \in Mantissas(p)}

\* inf of either sign, and the nan of _from_value (mantissa 1).
Specials(p) == {<<s, max_exp(p), 0, p>> : s \in {0, 1}} \cup {<<0, max_exp(p), 1, p>>}

Operands == UNION {Zeros(p) \cup Finites(p) \cup Specials(p) : p \in Precisions}

is_zero(v) == v[2] = 0 /\ v[3] = 0

is_finite_nonzero(v) == v[2] >= 1 /\ v[2] <= max_exp(v[4]) - 1

\* A finite value _from_value can return: biased exponents from
\* max_exp - 1 up saturate to infinity there.
is_encoder_finite(v) == v[2] >= 1 /\ v[2] < max_exp(v[4]) - 1

\* The invariants of a value in its own layout.
satisfies_invariants(v) ==
    /\ v[1] \in {0, 1}
    /\ 0 <= v[2] /\ v[2] <= max_exp(v[4])
    /\ 0 <= v[3] /\ v[3] < Pow2(mantissa_bits(v[4]))

----------------------------------------------------------------------------
(* The state machine: two operands and a result precision are drawn, one   *)
(* kernel operation is applied; a product may then be divided by b.        *)

NoResult == Ok(<<>>)

Init ==
    /\ a \in Operands
    /\ b \in Operands
    /\ prec \in Precisions
    /\ op = "input"
    /\ tmp = NoResult
    /\ res = NoResult
    /\ n_term = 0

Add ==
    /\ op = "input"
    /\ op' = "add"
    /\ res' = add_basic(a, b)
    /\ UNCHANGED <<a, b, prec, tmp, n_term>>

MultiplyBasic ==
    /\ op = "input"
    /\ op' = "multiply_basic"
    /\ res' = Ok(multiply_basic(a, b, prec))
    /\ UNCHANGED <<a, b, prec, tmp, n_term>>

MultiplyKarat ==
    /\ op = "input"
    /\ op' = "multiply_karat"
    /\ res' = Ok(multiply_karat(a, b, prec))
    /\ UNCHANGED <<a, b, prec, tmp, n_term>>

Divide ==
    /\ op = "input"
    /\ op' = "divide_basic"
    /\ res' = Ok(divide_basic(a, b, prec))
    /\ UNCHANGED <<a, b, prec, tmp, n_term>>

\* divide(multiply(a, b, prec), b, prec): the product is kept in tmp.
DivideProduct ==
    /\ op = "multiply_basic"
    /\ op' = "divide_product"
    /\ tmp' = res
    /\ res' = Ok(divide_basic(res.val, b, prec))
    /\ UNCHANGED <<a, b, prec, n_term>>

Next ==
    \/ Add
    \/ MultiplyBasic
    \/ MultiplyKarat
    \/ Divide

Spec == Init /\ [][Next]_vars

----------------------------------------------------------------------------
(* The round trip divide(multiply(a, b, p), b, p): both operands and the   *)
(* result at one precision p, finite and nonzero, at precisions up to      *)
(* MaxInversePrecision.                                                    *)

InversePrecisions == (MinExponentBits + 2) .. MaxInversePrecision

InitInverse ==
    /\ prec \in InversePrecisions
    /\ a \in Finites(prec)
    /\ b \in Finites(prec)
    /\ op = "input"
    /\ tmp = NoResult
    /\ res = NoResult
    /\ n_term = 0

NextInverse ==
    \/ MultiplyBasic
    \/ DivideProduct

SpecInverse == InitInverse /\ [][NextInverse]_vars

----------------------------------------------------------------------------
(* Mixed-precision addition: finite operands with exponents around the     *)
(* bias, at precisions up to MaxMixedPrecision, so that neither the        *)
(* exponent-gap shortcut nor saturation is in play.                        *)

MixedPrecisions == (MinExponentBits + 2) .. MaxMixedPrecision

MidFinites(p) ==
    {<<s, e, m, p>> : s \in {0, 1},
                      e \in (exponent_bias(p) - ExpSpan) .. (exponent_bias(p) + ExpSpan),
                      m \in Mantissas(p)}

InitMixedAdd ==
    /\ a \in UNION {MidFinites(p) : p \in MixedPrecisions}
    /\ b \in UNION {MidFinites(p) : p \in MixedPrecisions}
    /\ prec = Max(a[4], b[4])
    /\ op = "input"
    /\ tmp = NoResult
    /\ res = NoResult
    /\ n_term = 0

NextMixedAdd == Add

SpecMixedAdd == InitMixedAdd /\ [][NextMixedAdd]_vars

----------------------------------------------------------------------------
(* Elementary.sin_taylor.  a is x, b is negx2, tmp the term, res the       *)
(* result, n_term the term index n.                                        *)

\* CustomFloat(float(value), precision) for an integer value >= 0 that a
\* float holds exactly: exponent floor(log2(value)), mantissa truncated to
\* mantissa_bits, overflow to infinity from 2^exponent_bits - 2 up.
from_value(value, precision) ==
    IF value = 0 THEN <<0, 0, 0, precision>>
    ELSE
    LET exponentbits == Max(MinExponentBits, ilog2(precision) + 2)
        mantissabits == precision - exponentbits - 1
        sign == 0
        exponent == ilog2(value)
        mantissa == ((value - Pow2(exponent)) * Pow2(mantissabits)) \div Pow2(exponent)
        bias == Pow2(exponentbits - 1) - 1
        biased_exponent == exponent + bias
        maxexp == Pow2(exponentbits) - 2
    IN  IF biased_exponent >= maxexp
        THEN <<sign, maxexp + 1, 0, precision>>
        ELSE IF biased_exponent <= 0
        THEN <<sign, 0, 0, precision>>
        ELSE <<sign, biased_exponent, mantissa, precision>>

is_negligible(term, result, p) ==
    IF term[2] = 0 /\ term[3] = 0 THEN TRUE
    ELSE IF result[2] - term[2] > p \div 4 THEN TRUE
    ELSE FALSE

\* negx2 = CustomFloat((x2.sign ^ 1, x2.exponent, x2.mantissa, x2.precision))
\* for x2 = multiply_basic(x, x, prec)
neg_x_squared(x, p) ==
    LET x2 == multiply_basic(x, x, p)
    IN  <<xor(x2[1], 1), x2[2], x2[3], x2[4]>>

\* One pass of the loop body up to the addition: the new term and the
\* outcome of add_basic(result, term).
sin_step(term, result, negx2, nn, p) ==
    LET denom_raw == (2 * nn) * (2 * nn + 1)
        denom_flt == from_value(denom_raw, p)
        term1 == multiply_basic(term, negx2, p)
        term2 == divide_basic(term1, denom_flt, p)
    IN  [term |-> term2, sum |-> add_basic(result, term2)]

SinPrecisions == (MinExponentBits + 2) .. MaxSinPrecision

\* sin_taylor(x) up to the loop: result = x, term = x, n = 1, negx2.
InitSin ==
    /\ prec \in SinPrecisions
    /\ a \in {<<0, 0, 0, prec>>} \cup Finites(prec)
    /\ b = neg_x_squared(a, prec)
    /\ op = "sin_loop"
    /\ tmp = Ok(a)
    /\ res = Ok(a)
    /\ n_term = 1

\* An iteration whose term is not negligible: n += 1.
SinIterate ==
    /\ op = "sin_loop"
    /\ n_term <= MaxTerms
    /\ LET st == sin_step(tmp.val, res.val, b, n_term, prec)
       IN  /\ st.sum.exc = "none"
           /\ ~is_negligible(st.term, st.sum.val, prec)
           /\ tmp' = Ok(st.term)
           /\ res' = st.sum
           /\ n_term' = n_term + 1
    /\ UNCHANGED <<a, b, prec, op>>

\* An iteration whose term is negligible: break, return result.
SinReturn ==
    /\ op = "sin_loop"
    /\ n_term <= MaxTerms
    /\ LET st == sin_step(tmp.val, res.val, b, n_term, prec)
       IN  /\ st.sum.exc = "none"
           /\ is_negligible(st.term, st.sum.val, prec)
           /\ tmp' = Ok(st.term)
           /\ res' = st.sum
    /\ op' = "sin_return"
    /\ UNCHANGED <<a, b, prec, n_term>>

\* An iteration whose addition raises: the exception leaves sin_taylor.
SinRaise ==
    /\ op = "sin_loop"
    /\ n_term <= MaxTerms
    /\ LET st == sin_step(tmp.val, res.val, b, n_term, prec)
       IN  /\ st.sum.exc # "none"
           /\ tmp' = Ok(st.term)
           /\ res' = st.sum
    /\ op' = "sin_raise"
    /\ UNCHANGED <<a, b, prec, n_term>>

NextSin ==
    \/ SinIterate
    \/ SinReturn
    \/ SinRaise

SpecSin == InitSin /\ [][NextSin]_vars

----------------------------------------------------------------------------
(* Properties.                                                             *)

KernelOps == {"add", "multiply_basic", "multiply_karat", "divide_basic"}

\* max(a.precision, b.precision), the result precision of an addition
ResultPrec == Max(a[4], b[4])

\* C1: multiply_karat(a, b, p) returns the same tuple as
\* multiply_basic(a, b, p) for all operands (zero, finite, at equal or
\* different precisions) and every p; and for nonzero operands the
\* reconstruction (z2 << 2m) + (z1 << m) + z0 equals the product of the two
\* full mantissas at every split point m up to the wider mantissa width.
C1_KaratEqualsBasic ==
    op = "multiply_karat" =>
        /\ res = Ok(multiply_basic(a, b, prec))
        /\ (~is_zero(a) /\ ~is_zero(b)) =>
              LET fa == Pow2(mantissa_bits(a[4])) + a[3]
                  fb == Pow2(mantissa_bits(b[4])) + b[3]
              IN  \A m \in 0 .. Max(mantissa_bits(a[4]), mantissa_bits(b[4])) :
                      karat_product(fa, fb, m) = fa * fb

\* C1 witness: operands of different precisions whose low halves are both
\* nonzero (z0 > 0), multiplied by multiply_karat into a finite result.
C1_Witness ==
    /\ op = "multiply_karat"
    /\ a[4] # b[4]
    /\ is_finite_nonzero(a) /\ is_finite_nonzero(b)
    /\ a[3] % 2 = 1 /\ b[3] % 2 = 1
    /\ res.val[2] > 0 /\ res.val[2] < max_exp(prec)
    /\ res.val[3] > 0

\* C2: for finite nonzero operands that satisfy the invariants, the value
\* divide_basic returns satisfies the invariants in the layout of p:
\* 0 <= mantissa < 2^mantissa_bits(p), 0 <= exponent <= max_exp(p).
C2_DivideKeepsInvariants ==
    (/\ op = "divide_basic"
     /\ is_finite_nonzero(a) /\ satisfies_invariants(a)
     /\ is_finite_nonzero(b) /\ satisfies_invariants(b))
    => (res.val[4] = prec /\ satisfies_invariants(res.val))

\* C3: add_basic(a, b) and add_basic(b, a) have the same outcome, the same
\* tuple bit for bit, for all operands.
C3_AddCommutative ==
    op = "add" => res = add_basic(b, a)

\* C4: the value add_basic returns has precision
\* max(a.precision, b.precision).
C4_AddResultPrecision ==
    (op = "add" /\ res.exc = "none") => res.val[4] = ResultPrec

\* C5: when the aligned magnitudes cancel (the sum is zero) or the
\* re-biased exponent of the normalized sum is <= 0, add_basic returns,
\* as a value and not as an error, exact zero at the result precision.
C5_AddZeroResult ==
    (op = "add" /\ add_steps(a, b).branch \in {"cancel", "underflow"})
    => (/\ res.exc = "none"
        /\ Len(res.val) = 4
        /\ res.val[2] = 0 /\ res.val[3] = 0
        /\ res.val[4] = ResultPrec)

\* C6: no kernel operation on finite operands the encoder can produce
\* returns a value whose exponent is max_exp - 1 of the result layout:
\* a re-biased exponent >= max_exp - 1 gives infinity.
C6_UpperSaturation ==
    (/\ op \in KernelOps
     /\ is_encoder_finite(a) /\ is_encoder_finite(b)
     /\ res.exc = "none")
    => res.val[2] # max_exp(res.val[4]) - 1

\* C7: if b is zero, divide_basic returns infinity in the layout of p with
\* sign a.sign XOR b.sign, also when a is zero; if a is zero and b is not,
\* it returns (0, 0, 0, p).
C7_DivideSpecialCases ==
    op = "divide_basic" =>
        /\ is_zero(b) =>
              res = Ok(<<(a[1] + b[1]) % 2, max_exp(prec), 0, prec>>)
        /\ (is_zero(a) /\ ~is_zero(b)) => res = Ok(<<0, 0, 0, prec>>)

\* C7 witness: 0 / 0 with operands of different sign gives negative
\* infinity.
C7_Witness ==
    /\ op = "divide_basic"
    /\ is_zero(a) /\ is_zero(b)
    /\ a[1] # b[1]
    /\ res = Ok(<<1, max_exp(prec), 0, prec>>)

\* C8: for every finite x and every zero z (either sign, any precision),
\* add(x, z) and add(z, x) return the tuple of x.
C8_AdditiveIdentity ==
    op = "add" =>
        /\ (a[2] < max_exp(a[4]) /\ is_zero(b)) => res = Ok(a)
        /\ (is_zero(a) /\ b[2] < max_exp(b[4])) => res = Ok(b)

\* C9: for nonzero operands the sign of the product is a.sign XOR b.sign
\* under both strategies, also when the result is infinity or zero; when
\* an operand is zero the product is (0, 0, 0, p).
C9_MultiplySignRule ==
    op \in {"multiply_basic", "multiply_karat"} =>
        IF is_zero(a) \/ is_zero(b)
        THEN res = Ok(<<0, 0, 0, prec>>)
        ELSE res.val[1] = (IF a[1] = b[1] THEN 0 ELSE 1)

\* C9 witness: a negative times a positive operand that overflows to
\* negative infinity.
C9_Witness ==
    /\ op \in {"multiply_basic", "multiply_karat"}
    /\ is_finite_nonzero(a) /\ is_finite_nonzero(b)
    /\ a[1] = 1 /\ b[1] = 0
    /\ res = Ok(<<1, max_exp(prec), 0, prec>>)

Abs(x) == IF x < 0 THEN -x ELSE x

\* The values of r and x, of one precision, scaled by one power of two to
\* integers: value = (2^mantissa_bits + mantissa) * 2^(exponent - bias -
\* mantissa_bits).
ScaledValues(r, x) ==
    LET mb == mantissa_bits(x[4])
        nr == Pow2(mb) + r[3]
        nx == Pow2(mb) + x[3]
        d == r[2] - x[2]
    IN  IF d >= 0 THEN <<nr * Pow2(d), nx>> ELSE <<nr, nx * Pow2(-d)>>

\* |value(r) - value(x)| < |value(x)| * 2^-(mantissa_bits - 2)
WithinInverseTolerance(r, x) ==
    LET v == ScaledValues(r, x)
    IN  Abs(v[1] - v[2]) * Pow2(mantissa_bits(x[4])) < 4 * v[2]

\* Neither the product nor the quotient is a saturated zero or infinity.
InverseCase ==
    /\ op = "divide_product"
    /\ a[4] = prec /\ b[4] = prec
    /\ is_finite_nonzero(a) /\ is_finite_nonzero(b)
    /\ tmp.val[2] > 0 /\ tmp.val[2] < max_exp(prec)
    /\ res.val[2] > 0 /\ res.val[2] < max_exp(prec)

\* C10: for finite nonzero a and b at precision p, when neither result
\* saturates, divide(multiply(a, b, p), b, p) has the sign of a and its
\* value differs from the value of a by a relative error below
\* 2^-(mantissa_bits(p) - 2).
C10_InverseRelation ==
    InverseCase =>
        /\ res.val[1] = a[1]
        /\ WithinInverseTolerance(res.val, a)

\* C10 witness: a round trip at the largest precision that does not give
\* a back exactly.
C10_Witness ==
    /\ InverseCase
    /\ prec = MaxInversePrecision
    /\ a[1] = 1
    /\ ScaledValues(res.val, a)[1] < ScaledValues(res.val, a)[2]

\* v = FullMantissa(v) * 2^ValueScale(v) * 2^-bias, read in v's own layout.
FullMantissa(v) == Pow2(mantissa_bits(v[4])) + v[3]

ValueScale(v) == v[2] - mantissa_bits(v[4])

Min(x, y) == IF x <= y THEN x ELSE y

\* The value of v as a multiple of 2^(base - bias), for base <= ValueScale(v).
ValueAt(v, base) == FullMantissa(v) * Pow2(ValueScale(v) - base)

\* A same-sign addition of finite nonzero operands of different precisions
\* that returned a finite value.
MixedAddCase ==
    /\ op = "add"
    /\ a[4] # b[4]
    /\ a[1] = b[1]
    /\ is_finite_nonzero(a) /\ is_finite_nonzero(b)
    /\ res.exc = "none"
    /\ is_finite_nonzero(res.val)

\* C11: for finite nonzero same-sign operands of different precisions,
\* add reads each operand in its own layout: the value of the result, in
\* the layout of max(a.precision, b.precision), is at most
\* value(a) + value(b) and within relative error
\* 2^-(mantissa_bits(result) - 1) of it when the result does not saturate.
C11_MixedAddValue ==
    MixedAddCase =>
        LET base == Min(ValueScale(res.val), Min(ValueScale(a), ValueScale(b)))
            sum == ValueAt(a, base) + ValueAt(b, base)
            got == ValueAt(res.val, base)
        IN  /\ res.val[4] = ResultPrec
            /\ res.val[1] = a[1]
            /\ got <= sum
            /\ (sum - got) * Pow2(mantissa_bits(ResultPrec) - 1) < sum

\* A division of finite nonzero operands that returned a value that is
\* neither zero nor infinity.
DivideCase ==
    /\ op = "divide_basic"
    /\ is_finite_nonzero(a) /\ satisfies_invariants(a)
    /\ is_finite_nonzero(b) /\ satisfies_invariants(b)
    /\ res.val[2] > 0 /\ res.val[2] < max_exp(prec)

\* value(r) * value(y) and value(x), each read in its own layout, as
\* integers on one scale: <<r * y, x>>.
ScaledQuotientCheck(r, y, x) ==
    LET left == FullMantissa(r) * FullMantissa(y)
        right == FullMantissa(x)
        d == (ValueScale(r) + ValueScale(y) - exponent_bias(y[4])) - ValueScale(x)
    IN  IF d >= 0 THEN <<left * Pow2(d), right>> ELSE <<left, right * Pow2(-d)>>

\* C12: for finite nonzero a and b at equal or different precisions and
\* every result precision p for which the result does not saturate, the
\* magnitude of divide(a, b, p) is within relative error
\* 2^-(mantissa_bits(p) - 1) of value(a) / value(b): the normalization of
\* the quotient does not depend on the difference between the operands'
\* mantissa widths.
C12_DivideValue ==
    DivideCase =>
        LET v == ScaledQuotientCheck(res.val, b, a)
        IN  Abs(v[1] - v[2]) * Pow2(mantissa_bits(prec) - 1) < v[2]

SinOps == {"sin_loop", "sin_return", "sin_raise"}

\* C13: for every finite x the loop of sin_taylor reaches an iteration in
\* which is_negligible holds and returns result; it does not iterate
\* forever and does not stop through an error raised by a kernel
\* operation.  As a property of every state of a run: no exception has
\* left the loop, and the loop is still within MaxTerms iterations.
C13_SinTerminates ==
    op \in SinOps =>
        /\ op # "sin_raise"
        /\ res.exc = "none"
        /\ n_term <= MaxTerms

====
